---- MODULE Spec2Model ----
(***************************************************************************)
(* A model of mofgen_contribs.py: the three pydantic records MofIdEntry,   *)
(* ZeoPPEntry and MofGenEntry and their from_structure class methods.      *)
(*                                                                         *)
(* State: the process working directory (process-global), the directories  *)
(* that exist, and per thread the frames of the running from_structure     *)
(* calls.  Every statement that reads or writes the working directory or   *)
(* the file system is one action, so that two threads interleave at        *)
(* statement granularity.  File-system semantics are POSIX: a directory    *)
(* that is the working directory can be removed, after which os.getcwd()   *)
(* and relative paths fail and os.chdir() to a removed directory raises    *)
(* FileNotFoundError.                                                      *)
(*                                                                         *)
(* Python values are records tagged with their type, so that pydantic's    *)
(* validation is a check of the tag and None differs from an empty list.   *)
(***************************************************************************)
EXTENDS Integers, Sequences, FiniteSets, TLC

VARIABLES
  cwd,        \* the process working directory (os.getcwd / os.chdir)
  dirs,       \* the directories that exist
  nCreated,   \* how many temporary directories have been created
  entry,      \* per thread: the from_structure the caller invoked
  pc,         \* per thread: the statement about to run
  structure,  \* per thread: the structure argument
  kwargs,     \* per thread: the keyword arguments of MofGenEntry.from_structure
  old_cwd,    \* per thread: local old_cwd of the running sub-call
  tmp_dir,    \* per thread: local tmp_dir of the running sub-call
  output,     \* per thread: local mof_id_output / output of the running sub-call
  pending,    \* per thread: exception travelling through the with-block's exit
  sg,         \* per thread: local sg of MofGenEntry.from_structure
  config,     \* per thread: local config of MofGenEntry.from_structure
  result,     \* per thread: how the invoked call ended (return value or exception)
  startCwd,   \* per thread: working directory when the invoked call started
  callCwd,    \* per thread: working directory when the running sub-call started
  toolCwd,    \* per thread: working directory in which the last tool ran
  probes,     \* per thread: the sorbates the pore-geometry tool reports on
  events      \* per thread: what each external tool did in this call

vars == <<cwd, dirs, nCreated, entry, pc, structure, kwargs, old_cwd, tmp_dir,
          output, pending, sg, config, result, startCwd, callCwd, toolCwd,
          probes, events>>

\* Bounds of the model.
MaxMissing == 1    \* keys the identifier tool may leave out of its mapping
MaxKw == 1         \* keyword arguments a caller passes

Threads == {"T1", "T2"}

\* ---------------------------------------------------------------- values

None_ == [type |-> "NoneType"]

Val(ty, src, key) == [type |-> ty, src |-> src, key |-> key]

PyList(items) == [type |-> "list", items |-> items]

PyDict(order, map) == [type |-> "dict", order |-> order, map |-> map]

Return(v) == [kind |-> "return", value |-> v]

Raise(exc) == [kind |-> "raise", exc |-> exc]

Running == [kind |-> "running"]

RECURSIVE SeqToSet(_)
SeqToSet(s) == IF s = <<>> THEN {} ELSE {Head(s)} \cup SeqToSet(Tail(s))

\* All sequences without repetition over the set S.
RECURSIVE Perms(_)
Perms(S) ==
  IF S = {} THEN {<<>>}
  ELSE UNION {{<<x>> \o p : p \in Perms(S \ {x})} : x \in S}

\* ---------------------------------------------------------------- file system

HomeDirs == {"/home/user", "/work"}

TmpNames == <<"/tmp/tmpA", "/tmp/tmpB">>

\* tempfile.TemporaryDirectory(): a fresh directory.
FreshDir == TmpNames[nCreated + 1]

\* ---------------------------------------------------------------- pydantic

\* BaseModel.__init__(**kw): unknown names are ignored, absent fields take their
\* default None, and every non-None value must have a type the field accepts.
NewModel(cls, names, types, kw) ==
  LET fields == [f \in names |-> IF f \in DOMAIN kw THEN kw[f] ELSE None_]
      valid(f) == \/ fields[f] = None_
                  \/ /\ fields[f].type \in types[f]
                     /\ fields[f].type = "list" =>
                          \A i \in DOMAIN fields[f].items :
                             fields[f].items[i].type = "ZeoPPEntry"
  IN IF \A f \in names : valid(f)
       THEN Return([type |-> cls, fields |-> fields])
       ELSE Raise("ValidationError")

\* ---------------------------------------------------------------- MofIdEntry

IdFields == {"Smiles", "Topology", "SmilesLinkers", "SmilesNodes", "MofKey", "MofId"}

IdFieldTypes ==
  [f \in IdFields |->
     IF f \in {"SmilesLinkers", "SmilesNodes"} THEN {"list[str]"} ELSE {"str"}]

remap ==
  [f \in IdFields |->
     CASE f = "Smiles" -> "smiles"
       [] f = "Topology" -> "topology"
       [] f = "SmilesLinkers" -> "smiles_linkers"
       [] f = "SmilesNodes" -> "smiles_nodes"
       [] f = "MofKey" -> "mofkey"
       [] f = "MofId" -> "mofid"]

IdKeys == {remap[f] : f \in IdFields}

\* What cif2mofid returns: a mapping that may lack up to MaxMissing of the six keys,
\* or carry one value of a type the record does not accept.
IdKeyType(k) == IF k \in {"smiles_linkers", "smiles_nodes"} THEN "list[str]" ELSE "str"

IdToolDict(missing, bad) ==
  PyDict(<<>>, [k \in IdKeys \ missing |->
                  Val(IF k = bad THEN "object" ELSE IdKeyType(k), "cif2mofid", k)])

IdToolOutputs ==
  {IdToolDict(m, "none") : m \in {x \in SUBSET IdKeys : Cardinality(x) <= MaxMissing}}
    \cup {IdToolDict({}, b) : b \in IdKeys}

NewMofIdEntry(kw) == NewModel("MofIdEntry", IdFields, IdFieldTypes, kw)

\* mof_id_output[v]: indexing a dict by a key it lacks raises KeyError.
IdLookupFails(out) == \E f \in IdFields : remap[f] \notin DOMAIN out.map

\* Lines 46-57: the record built from mof_id_output.
MofIdResult(out) ==
  IF out = None_ THEN NewMofIdEntry(<<>>)
  ELSE IF IdLookupFails(out) THEN Raise("KeyError")
  ELSE NewMofIdEntry([f \in IdFields |-> out.map[remap[f]]])

\* ---------------------------------------------------------------- ZeoPPEntry

ZeoValueFields ==
  {"Density", "UnitCellVolume", "Pld", "Lcd", "Poav", "PoavVolumetric",
   "PoavVolumeFraction", "Ponav", "PonavVolumetric", "PonavVolumeFraction"}

ZeoFields == {"Sorbate"} \cup ZeoValueFields

ZeoFieldTypes == [f \in ZeoFields |-> IF f = "Sorbate" THEN {"str"} ELSE {"float", "int"}]

\* Lines 65-69: the tool key of the quantity and unit each volume field is
\* documented with (Field(description = "POAV in cm^3/g"), ...).
DocumentedKey ==
  [f \in {"Poav", "PoavVolumetric", "Ponav", "PonavVolumetric"} |->
     CASE f = "Poav" -> "POAV_cm^3/g"
       [] f = "PoavVolumetric" -> "POAV_A^3"
       [] f = "Ponav" -> "PONAV_cm^3/g"
       [] f = "PonavVolumetric" -> "PONAV_A^3"]

mapping ==
  [f \in ZeoValueFields |->
     CASE f = "Density" -> "Density"
       [] f = "UnitCellVolume" -> "Unitcell_volume"
       [] f = "Pld" -> "PLD"
       [] f = "Lcd" -> "LCD"
       [] f = "Poav" -> "POAV_cm^3/g"
       [] f = "PoavVolumetric" -> "POAV_A^3"
       [] f = "PoavVolumeFraction" -> "POAV_Volume_fraction"
       [] f = "Ponav" -> "PONAV_A^3"
       [] f = "PonavVolumetric" -> "PONAV_cm^3/g"
       [] f = "PonavVolumeFraction" -> "PONAV_Volume_fraction"]

\* The keys of one sorbate's entry in the pore-geometry tool's output.
ZeoKeys ==
  {"Density", "Unitcell_volume", "PLD", "LCD", "POAV_cm^3/g", "POAV_A^3",
   "POAV_Volume_fraction", "PONAV_A^3", "PONAV_cm^3/g", "PONAV_Volume_fraction"}

ReservedKey == "is_mof"

SorbateNames == {"CO2", "N2"}

\* What _run_zeopp_assessment returns for the probes ps: a mapping, in any
\* insertion order, from each probe (and possibly the reserved key, whose value is
\* a bool) to that probe's entry.  Every entry may lack one key, or carry one
\* value of a type the record does not accept.
ZeoToolEntry(sorbate, missing, bad) ==
  IF sorbate = ReservedKey THEN Val("bool", "zeopp", ReservedKey)
  ELSE PyDict(<<>>, [k \in ZeoKeys \ {missing} |->
                       Val(IF k = bad THEN "object" ELSE "float", sorbate, k)])

ZeoToolDict(order, missing, bad) ==
  PyDict(order, [s \in SeqToSet(order) |-> ZeoToolEntry(s, missing, bad)])

ZeoToolOutputs(ps) ==
  LET orders == Perms(ps) \cup Perms(ps \cup {ReservedKey})
  IN {ZeoToolDict(o, m, "none") : o \in orders, m \in ZeoKeys \cup {"none"}}
       \cup {ZeoToolDict(o, "none", "PLD") : o \in orders}

NewZeoPPEntry(kw) == NewModel("ZeoPPEntry", ZeoFields, ZeoFieldTypes, kw)

\* A comprehension without its filter: every key becomes a record.
ZeoKeep_All(sorbate) == TRUE

\* Line 112: the filter of the list comprehension.
ZeoKeep(sorbate) == sorbate # ReservedKey

\* Lines 107-110: the record of one sorbate; entry[v] raises TypeError on a value
\* that is no mapping and KeyError on a mapping that lacks the key.
ZeoItem(sorbate, e) ==
  IF e.type # "dict" THEN Raise("TypeError")
  ELSE IF \E f \in ZeoValueFields : mapping[f] \notin DOMAIN e.map THEN Raise("KeyError")
  ELSE NewZeoPPEntry(("Sorbate" :> Val("str", "key", sorbate))
                       @@ [f \in ZeoValueFields |-> e.map[mapping[f]]])

\* Lines 106-113: the list comprehension over output.items(), in the mapping's
\* order; the first item that raises ends it.
RECURSIVE ZeoItems(_, _)
ZeoItems(out, keys) ==
  IF keys = <<>> THEN Return(<<>>)
  ELSE IF ~ZeoKeep(Head(keys)) THEN ZeoItems(out, Tail(keys))
  ELSE LET item == ZeoItem(Head(keys), out.map[Head(keys)])
           rest == ZeoItems(out, Tail(keys))
       IN IF item.kind = "raise" THEN item
          ELSE IF rest.kind = "raise" THEN rest
          ELSE Return(<<item.value>> \o rest.value)

\* A failure reported as "no sorbates".
ZeoFailureValue_EmptyList == PyList(<<>>)

\* Line 91: what from_structure returns when the tool produced no output.
ZeoFailureValue == None_

\* Lines 90-113: the value built from output.
ZeoResult(out) ==
  IF out = None_ THEN Return(ZeoFailureValue)
  ELSE LET items == ZeoItems(out, out.order)
       IN IF items.kind = "raise" THEN items ELSE Return(PyList(items.value))

\* ---------------------------------------------------------------- MofGenEntry

GenFields ==
  {"Identifier", "Structure", "Density", "Volume", "NumSites", "Formula",
   "FormulaReduced", "ChemicalSystem", "NumElements", "SpaceGroupNumber",
   "SpaceGroupSymbol", "Method", "Energy", "FormationEnergyPerAtom", "BandGap",
   "MofId", "ZeoPlusPlus"}

GenFieldTypes ==
  [f \in GenFields |->
     CASE f \in {"Identifier", "Formula", "FormulaReduced", "ChemicalSystem",
                 "SpaceGroupSymbol", "Method"} -> {"str"}
       [] f \in {"NumSites", "NumElements", "SpaceGroupNumber"} -> {"int"}
       [] f = "Structure" -> {"Structure"}
       [] f = "MofId" -> {"MofIdEntry"}
       [] f = "ZeoPlusPlus" -> {"list"}
       [] OTHER -> {"float", "int"}]

\* Element symbols in str order, as sorted() compares them.
SymbolOrder == <<"C", "Fe", "H", "Li", "O", "Zn">>

StrLess(a, b) ==
  \E i, j \in DOMAIN SymbolOrder : SymbolOrder[i] = a /\ SymbolOrder[j] = b /\ i < j

RECURSIVE Insert(_, _)
Insert(x, s) ==
  IF s = <<>> THEN <<x>>
  ELSE IF StrLess(Head(s), x) THEN <<Head(s)>> \o Insert(x, Tail(s))
  ELSE <<x>> \o s

RECURSIVE Sorted(_)
Sorted(s) == IF s = <<>> THEN <<>> ELSE Insert(Head(s), Sorted(Tail(s)))

\* The structures analysed: a name and the elements of the composition, in the
\* composition's own order.
Structures ==
  {[name |-> "LiFeO2", elements |-> <<"O", "Fe", "Li">>],
   [name |-> "MOF-5", elements |-> <<"Zn", "H", "C", "O">>]}

\* Lines 149-156: the fields computed from the structure itself.
BaseConfig(s) ==
  [f \in {"Structure", "Density", "Volume", "NumSites", "Formula", "FormulaReduced",
          "ChemicalSystem", "NumElements"} |->
     CASE f = "Structure" -> Val("Structure", s.name, "self")
       [] f = "Density" -> Val("float", s.name, "density")
       [] f = "Volume" -> Val("float", s.name, "volume")
       [] f = "NumSites" -> Val("int", s.name, "num_sites")
       [] f = "Formula" -> Val("str", s.name, "composition.formula")
       [] f = "FormulaReduced" -> Val("str", s.name, "composition.reduced_formula")
       [] f = "ChemicalSystem" ->
            [type |-> "str", src |-> s.name, key |-> "join", parts |-> Sorted(s.elements)]
       [] f = "NumElements" -> Val("int", s.name, "len(composition)")]

\* What the symmetry analyzer does: it returns both values (of the types the record
\* accepts, or not), or raises in the constructor or in either getter.
SymOutcomes == {"ok", "ok_malformed", "raise_ctor", "raise_number", "raise_symbol"}

\* sg filled key by key: the number is kept when the symbol's getter raises.
SgAfter_Incremental(o, s) ==
  IF o \in {"ok", "ok_malformed"}
    THEN ("SpaceGroupNumber" :>
            Val(IF o = "ok" THEN "int" ELSE "object", s.name, "get_space_group_number"))
         @@ ("SpaceGroupSymbol" :> Val("str", s.name, "get_space_group_symbol"))
    ELSE IF o = "raise_symbol"
    THEN ("SpaceGroupNumber" :> Val("int", s.name, "get_space_group_number"))
    ELSE [x \in {} |-> None_]

\* Lines 138-146: sg after the try block.  The dict is assigned only once both
\* getters have returned.
SgAfter(o, s) ==
  IF o \in {"ok", "ok_malformed"}
    THEN ("SpaceGroupNumber" :>
            Val(IF o = "ok" THEN "int" ELSE "object", s.name, "get_space_group_number"))
         @@ ("SpaceGroupSymbol" :> Val("str", s.name, "get_space_group_symbol"))
    ELSE [x \in {} |-> None_]

\* The keyword arguments a caller passes: up to MaxKw names, each with a value the
\* record accepts for that name or with one it rejects.  "Comment" names no field.
KwNames == {"Identifier", "Density", "SpaceGroupNumber", "ZeoPlusPlus", "Comment"}

CallerValue(n, good) ==
  IF ~good THEN Val("object", "caller", n)
  ELSE CASE n = "ZeoPlusPlus" -> PyList(<<>>)
         [] n = "Density" -> Val("float", "caller", n)
         [] n = "SpaceGroupNumber" -> Val("int", "caller", n)
         [] OTHER -> Val("str", "caller", n)

KwargsChoices ==
  UNION {{[n \in S |-> CallerValue(n, g[n])] : g \in [S -> BOOLEAN]} :
           S \in {x \in SUBSET KwNames : Cardinality(x) <= MaxKw}}

\* Line 161: cls(**config, **kwargs).  A name given by both mappings is a repeated
\* keyword argument of the call, which Python rejects with TypeError before
\* the constructor runs.
Construct(cfg, kw) ==
  IF DOMAIN cfg \cap DOMAIN kw # {} THEN Raise("TypeError")
  ELSE NewModel("MofGenEntry", GenFields, GenFieldTypes, cfg @@ kw)

\* ---------------------------------------------------------------- control

Entries == {"MofGenEntry", "MofIdEntry", "ZeoPPEntry"}

NoDir == "(unset)"

NoEvents == [sym |-> "none", id |-> "none", zeo |-> "none"]

EmptyDict == [x \in {} |-> None_]

\* What a tool returned, for the record of events: complete when every documented
\* key is there with a value of the documented type.
IdComplete(o) ==
  /\ DOMAIN o.map = IdKeys
  /\ \A k \in IdKeys : o.map[k].type = IdKeyType(k)

ZeoComplete(o) ==
  \A s \in SeqToSet(o.order) \ {ReservedKey} :
     /\ o.map[s].type = "dict"
     /\ DOMAIN o.map[s].map = ZeoKeys
     /\ \A k \in ZeoKeys : o.map[s].map[k].type = "float"

\* Control moves to statement l of the running call.
Goto(t, l) ==
  /\ pc' = [pc EXCEPT ![t] = l]
  /\ UNCHANGED <<result, config>>

\* An exception no handler catches: it leaves every frame of the thread.
Propagate(t, exc) ==
  /\ pc' = [pc EXCEPT ![t] = "done"]
  /\ result' = [result EXCEPT ![t] = exc]
  /\ UNCHANGED config

\* Whether a sub-call's outcome returns control to MofGenEntry.from_structure.
Resumes(t, outcome) == entry[t] = "MofGenEntry" /\ outcome.kind = "return"

\* A sub-call ends with `outcome`.  Called by the user, that is the call's result;
\* called from MofGenEntry.from_structure (lines 157, 158), a returned value becomes
\* config[field] and control continues at `cont`, and an exception propagates.
\* The frame of a sub-call that returned into MofGenEntry.from_structure is gone;
\* the frame of the call the user made is kept, to be looked at.
Leave(t, outcome, field, cont) ==
  IF Resumes(t, outcome)
    THEN /\ pc' = [pc EXCEPT ![t] = cont]
         /\ config' = [config EXCEPT ![t] = (field :> outcome.value) @@ @]
         /\ UNCHANGED result
    ELSE Propagate(t, outcome)

\* ---------------------------------------------------------------- MofIdEntry.from_structure

\* A restore that names the wrong local.
IdRestoreTarget_TmpDir(t) == tmp_dir[t]

\* Line 45: the directory os.chdir is given after the with block.
IdRestoreTarget(t) == old_cwd[t]

\* Lines 35-36: old_cwd = os.getcwd(); mof_id_output = None.
IdGetcwd(t) ==
  /\ pc[t] = "id_getcwd"
  /\ old_cwd' = [old_cwd EXCEPT ![t] = IF cwd \in dirs THEN cwd ELSE @]
  /\ output' = [output EXCEPT ![t] = None_]
  /\ IF cwd \in dirs THEN Goto(t, "id_mkdtemp")
                     ELSE Propagate(t, Raise("FileNotFoundError"))
  /\ UNCHANGED <<cwd, dirs, nCreated, entry, structure, kwargs, tmp_dir, pending, sg,
                 startCwd, callCwd, toolCwd, probes, events>>

\* Line 37: with TemporaryDirectory() as tmp_dir.
IdMkdtemp(t) ==
  /\ pc[t] = "id_mkdtemp"
  /\ nCreated < Len(TmpNames)
  /\ tmp_dir' = [tmp_dir EXCEPT ![t] = FreshDir]
  /\ dirs' = dirs \cup {FreshDir}
  /\ nCreated' = nCreated + 1
  /\ Goto(t, "id_chdir")
  /\ UNCHANGED <<cwd, entry, structure, kwargs, old_cwd, output, pending, sg,
                 startCwd, callCwd, toolCwd, probes, events>>

\* Line 38: os.chdir(tmp_dir).
IdChdir(t) ==
  /\ pc[t] = "id_chdir"
  /\ cwd' = tmp_dir[t]
  /\ Goto(t, "id_to")
  /\ UNCHANGED <<dirs, nCreated, entry, structure, kwargs, old_cwd, tmp_dir, output,
                 pending, sg, startCwd, callCwd, toolCwd, probes, events>>

\* Line 40: structure.to("temp.cif"), a relative path: it raises when serialization
\* fails or the working directory is gone; lines 42-43 catch and print.
IdTo(t) ==
  /\ pc[t] = "id_to"
  /\ \E ok \in {b \in BOOLEAN : b => cwd \in dirs} :
       /\ events' = [events EXCEPT ![t].id = IF ok THEN @ ELSE "raise_to"]
       /\ Goto(t, IF ok THEN "id_tool" ELSE "id_cleanup")
  /\ UNCHANGED <<cwd, dirs, nCreated, entry, structure, kwargs, old_cwd, tmp_dir,
                 output, pending, sg, startCwd, callCwd, toolCwd, probes>>

\* Line 41: mof_id_output = cif2mofid("temp.cif", **kwargs); when the tool raises,
\* lines 42-43 catch and print and mof_id_output stays None.
IdTool(t) ==
  /\ pc[t] = "id_tool"
  /\ \E o \in {None_} \cup IdToolOutputs :
       /\ output' = [output EXCEPT ![t] = o]
       /\ events' = [events EXCEPT ![t].id =
             IF o = None_ THEN "raise_tool"
             ELSE IF IdComplete(o) THEN "complete" ELSE "defective"]
  /\ toolCwd' = [toolCwd EXCEPT ![t] = cwd]
  /\ Goto(t, "id_cleanup")
  /\ UNCHANGED <<cwd, dirs, nCreated, entry, structure, kwargs, old_cwd, tmp_dir,
                 pending, sg, startCwd, callCwd, probes>>

\* Line 37, the with block's exit: the temporary directory is removed.
IdCleanup(t) ==
  /\ pc[t] = "id_cleanup"
  /\ dirs' = dirs \ {tmp_dir[t]}
  /\ Goto(t, "id_restore")
  /\ UNCHANGED <<cwd, nCreated, entry, structure, kwargs, old_cwd, tmp_dir, output,
                 pending, sg, startCwd, callCwd, toolCwd, probes, events>>

\* Line 45: os.chdir(old_cwd), after the with block.
IdRestore(t) ==
  /\ pc[t] = "id_restore"
  /\ cwd' = IF IdRestoreTarget(t) \in dirs THEN IdRestoreTarget(t) ELSE cwd
  /\ IF IdRestoreTarget(t) \in dirs THEN Goto(t, "id_return")
                                    ELSE Propagate(t, Raise("FileNotFoundError"))
  /\ UNCHANGED <<dirs, nCreated, entry, structure, kwargs, old_cwd, tmp_dir, output,
                 pending, sg, startCwd, callCwd, toolCwd, probes, events>>

\* Lines 46-57: return the record.  Returning into MofGenEntry.from_structure
\* (line 157), the next statement is line 158's call of ZeoPPEntry.from_structure.
IdReturn(t) ==
  /\ pc[t] = "id_return"
  /\ LET r == MofIdResult(output[t]) IN
       /\ Leave(t, r, "MofId", "zeo_getcwd")
       /\ old_cwd' = [old_cwd EXCEPT ![t] = IF Resumes(t, r) THEN NoDir ELSE @]
       /\ tmp_dir' = [tmp_dir EXCEPT ![t] = IF Resumes(t, r) THEN NoDir ELSE @]
       /\ output' = [output EXCEPT ![t] = IF Resumes(t, r) THEN None_ ELSE @]
       /\ callCwd' = [callCwd EXCEPT ![t] = IF Resumes(t, r) THEN cwd ELSE @]
  /\ UNCHANGED <<cwd, dirs, nCreated, entry, structure, kwargs, pending, sg,
                 startCwd, toolCwd, probes, events>>

\* ---------------------------------------------------------------- ZeoPPEntry.from_structure

\* os.chdir(old_cwd) written as the last statement of the try suite: a raising tool
\* skips it.
ZeoAfterTry_InsideTry(raised) == IF raised THEN "zeo_cleanup" ELSE "zeo_restore"

\* Lines 86-88: where control goes once the try statement is over, the tool having
\* returned or its exception having been caught and printed.
ZeoAfterTry(raised) == "zeo_restore"

\* Lines 77-78: output = None; old_cwd = os.getcwd().
ZeoGetcwd(t) ==
  /\ pc[t] = "zeo_getcwd"
  /\ old_cwd' = [old_cwd EXCEPT ![t] = IF cwd \in dirs THEN cwd ELSE @]
  /\ output' = [output EXCEPT ![t] = None_]
  /\ IF cwd \in dirs THEN Goto(t, "zeo_mkdtemp")
                     ELSE Propagate(t, Raise("FileNotFoundError"))
  /\ UNCHANGED <<cwd, dirs, nCreated, entry, structure, kwargs, tmp_dir, pending, sg,
                 startCwd, callCwd, toolCwd, probes, events>>

\* Line 79: with TemporaryDirectory() as tmp_dir.
ZeoMkdtemp(t) ==
  /\ pc[t] = "zeo_mkdtemp"
  /\ nCreated < Len(TmpNames)
  /\ tmp_dir' = [tmp_dir EXCEPT ![t] = FreshDir]
  /\ dirs' = dirs \cup {FreshDir}
  /\ nCreated' = nCreated + 1
  /\ Goto(t, "zeo_chdir")
  /\ UNCHANGED <<cwd, entry, structure, kwargs, old_cwd, output, pending, sg,
                 startCwd, callCwd, toolCwd, probes, events>>

\* Line 80: os.chdir(tmp_dir).
ZeoChdir(t) ==
  /\ pc[t] = "zeo_chdir"
  /\ cwd' = tmp_dir[t]
  /\ Goto(t, "zeo_tool")
  /\ UNCHANGED <<dirs, nCreated, entry, structure, kwargs, old_cwd, tmp_dir, output,
                 pending, sg, startCwd, callCwd, toolCwd, probes, events>>

\* Lines 81-87: output = _run_zeopp_assessment(structure, **zeopp_kwargs); when the
\* tool raises, the handler prints and output stays None.
ZeoTool(t) ==
  /\ pc[t] = "zeo_tool"
  /\ \E o \in {None_} \cup ZeoToolOutputs(probes[t]) :
       /\ output' = [output EXCEPT ![t] = o]
       /\ events' = [events EXCEPT ![t].zeo =
             IF o = None_ THEN "raise"
             ELSE IF ZeoComplete(o) THEN "complete" ELSE "defective"]
  /\ toolCwd' = [toolCwd EXCEPT ![t] = cwd]
  /\ Goto(t, ZeoAfterTry(output'[t] = None_))
  /\ UNCHANGED <<cwd, dirs, nCreated, entry, structure, kwargs, old_cwd, tmp_dir,
                 pending, sg, startCwd, callCwd, probes>>

\* Line 88: os.chdir(old_cwd), inside the with block and outside the try: its
\* FileNotFoundError travels through the with block's exit.
ZeoRestore(t) ==
  /\ pc[t] = "zeo_restore"
  /\ cwd' = IF old_cwd[t] \in dirs THEN old_cwd[t] ELSE cwd
  /\ pending' = [pending EXCEPT ![t] =
        IF old_cwd[t] \in dirs THEN @ ELSE Raise("FileNotFoundError")]
  /\ Goto(t, "zeo_cleanup")
  /\ UNCHANGED <<dirs, nCreated, entry, structure, kwargs, old_cwd, tmp_dir, output,
                 sg, startCwd, callCwd, toolCwd, probes, events>>

\* Line 79, the with block's exit: the temporary directory is removed, and an
\* exception raised inside the block goes on to the caller.
ZeoCleanup(t) ==
  /\ pc[t] = "zeo_cleanup"
  /\ dirs' = dirs \ {tmp_dir[t]}
  /\ IF pending[t] = None_ THEN Goto(t, "zeo_return") ELSE Propagate(t, pending[t])
  /\ UNCHANGED <<cwd, nCreated, entry, structure, kwargs, old_cwd, tmp_dir, output,
                 pending, sg, startCwd, callCwd, toolCwd, probes, events>>

\* Lines 90-113: return None or the list of records.  Returning into
\* MofGenEntry.from_structure (line 158), the next statement is line 159-161.
ZeoReturn(t) ==
  /\ pc[t] = "zeo_return"
  /\ LET r == ZeoResult(output[t]) IN
       /\ Leave(t, r, "ZeoPlusPlus", "mg_construct")
       /\ old_cwd' = [old_cwd EXCEPT ![t] = IF Resumes(t, r) THEN NoDir ELSE @]
       /\ tmp_dir' = [tmp_dir EXCEPT ![t] = IF Resumes(t, r) THEN NoDir ELSE @]
       /\ output' = [output EXCEPT ![t] = IF Resumes(t, r) THEN None_ ELSE @]
  /\ UNCHANGED <<cwd, dirs, nCreated, entry, structure, kwargs, pending, sg,
                 startCwd, callCwd, toolCwd, probes, events>>

\* ---------------------------------------------------------------- MofGenEntry.from_structure

\* Lines 138-146: the symmetry analysis, inside try/except Exception.
MgSym(t) ==
  /\ pc[t] = "mg_sym"
  /\ \E o \in SymOutcomes :
       /\ sg' = [sg EXCEPT ![t] = SgAfter(o, structure[t])]
       /\ events' = [events EXCEPT ![t].sym = o]
  /\ Goto(t, "mg_fields")
  /\ UNCHANGED <<cwd, dirs, nCreated, entry, structure, kwargs, old_cwd, tmp_dir,
                 output, pending, startCwd, callCwd, toolCwd, probes>>

\* Lines 148-157: the dict display is evaluated item by item; after the eight
\* values read off the structure comes the call of MofIdEntry.from_structure.
MgFields(t) ==
  /\ pc[t] = "mg_fields"
  /\ pc' = [pc EXCEPT ![t] = "id_getcwd"]
  /\ config' = [config EXCEPT ![t] = BaseConfig(structure[t])]
  /\ callCwd' = [callCwd EXCEPT ![t] = cwd]
  /\ UNCHANGED <<cwd, dirs, nCreated, entry, structure, kwargs, old_cwd, tmp_dir,
                 output, pending, sg, result, startCwd, toolCwd, probes, events>>

\* Lines 159-161: **sg closes the dict display, and cls(**config, **kwargs) builds
\* the record from it and the caller's keyword arguments.
MgConstruct(t) ==
  /\ pc[t] = "mg_construct"
  /\ \E kw \in KwargsChoices :
       /\ kwargs' = [kwargs EXCEPT ![t] = kw]
       /\ config' = [config EXCEPT ![t] = sg[t] @@ @]
       /\ result' = [result EXCEPT ![t] = Construct(sg[t] @@ config[t], kw)]
  /\ pc' = [pc EXCEPT ![t] = "done"]
  /\ UNCHANGED <<cwd, dirs, nCreated, entry, structure, old_cwd, tmp_dir,
                 output, pending, sg, startCwd, callCwd, toolCwd, probes, events>>

\* ---------------------------------------------------------------- specifications

FirstPc(e) ==
  CASE e = "MofGenEntry" -> "mg_sym"
    [] e = "MofIdEntry" -> "id_getcwd"
    [] e = "ZeoPPEntry" -> "zeo_getcwd"
    [] OTHER -> "idle"

\* The state common to every start: nothing has run yet.
InitCommon ==
  /\ dirs = HomeDirs
  /\ nCreated = 0
  /\ pc = [t \in Threads |-> FirstPc(entry[t])]
  /\ kwargs = [t \in Threads |-> EmptyDict]
  /\ old_cwd = [t \in Threads |-> NoDir]
  /\ tmp_dir = [t \in Threads |-> NoDir]
  /\ output = [t \in Threads |-> None_]
  /\ pending = [t \in Threads |-> None_]
  /\ sg = [t \in Threads |-> EmptyDict]
  /\ config = [t \in Threads |-> EmptyDict]
  /\ result = [t \in Threads |-> Running]
  /\ startCwd = [t \in Threads |-> cwd]
  /\ callCwd = [t \in Threads |-> cwd]
  /\ toolCwd = [t \in Threads |-> NoDir]
  /\ events = [t \in Threads |-> NoEvents]

\* One thread makes one call of one of the three from_structure methods.
Init ==
  /\ \E e \in Entries : entry = [t \in Threads |-> IF t = "T1" THEN e ELSE "none"]
  /\ \E s \in Structures : structure = [t \in Threads |-> s]
  /\ \E ps \in SUBSET SorbateNames : probes = [t \in Threads |-> ps]
  /\ cwd \in HomeDirs
  /\ InitCommon

\* Two threads of one process each call MofIdEntry.from_structure or
\* ZeoPPEntry.from_structure on the same structure, started in /work; the first
\* asks the pore-geometry tool for one probe, the second for none.
InitConc ==
  /\ entry \in [Threads -> {"MofIdEntry", "ZeoPPEntry"}]
  /\ structure = [t \in Threads |-> CHOOSE s \in Structures : s.name = "MOF-5"]
  /\ probes = [t \in Threads |-> IF t = "T1" THEN {"N2"} ELSE {}]
  /\ cwd = "/work"
  /\ InitCommon

SubCallStep(t) ==
  \/ IdGetcwd(t) \/ IdMkdtemp(t) \/ IdChdir(t) \/ IdTo(t) \/ IdTool(t)
  \/ IdCleanup(t) \/ IdRestore(t) \/ IdReturn(t)
  \/ ZeoGetcwd(t) \/ ZeoMkdtemp(t) \/ ZeoChdir(t) \/ ZeoTool(t)
  \/ ZeoRestore(t) \/ ZeoCleanup(t) \/ ZeoReturn(t)

Next == \E t \in Threads : SubCallStep(t) \/ MgSym(t) \/ MgFields(t) \/ MgConstruct(t)

NextConc == \E t \in Threads : SubCallStep(t)

Spec == Init /\ [][Next]_vars

SpecConc == InitConc /\ [][NextConc]_vars

\* ---------------------------------------------------------------- properties

Done(t) == pc[t] = "done"

Returned(t) == result[t].kind = "return"

\* MofGenEntry.from_structure reached line 161, the construction of the record.
Constructed(t) ==
  entry[t] = "MofGenEntry" /\ Done(t) /\ "ZeoPlusPlus" \in DOMAIN config[t]

KwGood(t) == \A n \in DOMAIN kwargs[t] : kwargs[t][n].type # "object"

ComputedNames(t) == DOMAIN config[t]

SymRaised(t) == events[t].sym \in {"raise_ctor", "raise_number", "raise_symbol"}

SgNames == {"SpaceGroupNumber", "SpaceGroupSymbol"}

\* C1: a keyword argument of MofGenEntry.from_structure that names a field (with a
\* value the field accepts) never makes the call fail with TypeError, and the
\* returned record carries the caller's value in that field.
C1_OverridesTakePrecedence ==
  \A t \in Threads :
    Constructed(t) /\ KwGood(t) =>
      /\ ~Returned(t) => result[t].exc # "TypeError"
      /\ Returned(t) =>
           \A n \in DOMAIN kwargs[t] \cap GenFields :
              result[t].value.fields[n] = kwargs[t][n]

\* C2: MofGenEntry.from_structure called with no keyword that names a computed
\* field either returns a record or raises the record's validation error,
\* whatever the three tools did.
C2_OnlyValidationRaises ==
  \A t \in Threads :
    entry[t] = "MofGenEntry" /\ Done(t) /\ DOMAIN kwargs[t] \cap ComputedNames(t) = {} =>
      Returned(t) \/ result[t].exc = "ValidationError"

\* C3: in a process with one thread, the working directory is the one the call
\* started in whenever MofIdEntry.from_structure or ZeoPPEntry.from_structure is
\* past its with block or has ended (by return or by exception), and so whenever
\* MofGenEntry.from_structure has ended.
C3_CwdRestored ==
  \A t \in Threads :
    /\ pc[t] \in {"id_return", "zeo_return"} => cwd = callCwd[t]
    /\ entry[t] = "MofGenEntry" /\ pc[t] \in {"zeo_getcwd", "mg_construct"} =>
         cwd = startCwd[t]
    /\ Done(t) => cwd = startCwd[t] /\ cwd = callCwd[t]

C3_Witness ==
  \E t \in Threads :
    /\ entry[t] = "MofGenEntry" /\ Done(t) /\ Returned(t)
    /\ events[t].id = "raise_to" /\ events[t].zeo = "raise"
    /\ nCreated = Len(TmpNames)
    /\ cwd = startCwd[t]

\* C4: a raising pore-geometry tool gives None, never an empty list, as the value
\* of ZeoPPEntry.from_structure and as the ZeoPlusPlus entry MofGenEntry builds its
\* record from; a returned mapping gives a list, which is the empty list when the
\* mapping has no key but the reserved one.
C4_NoneIsFailureEmptyIsNoSorbate ==
  \A t \in Threads :
    /\ entry[t] = "ZeoPPEntry" /\ Done(t) /\ events[t].zeo = "raise" =>
         result[t] = Return(None_)
    /\ entry[t] = "ZeoPPEntry" /\ Done(t) /\ events[t].zeo \notin {"raise", "none"}
         /\ SeqToSet(output[t].order) \subseteq {ReservedKey} =>
         result[t] = Return(PyList(<<>>))
    /\ Constructed(t) =>
         /\ events[t].zeo = "raise" <=> config[t]["ZeoPlusPlus"] = None_
         /\ events[t].zeo # "raise" => config[t]["ZeoPlusPlus"].type = "list"
         /\ Returned(t) /\ "ZeoPlusPlus" \notin DOMAIN kwargs[t] =>
              result[t].value.fields["ZeoPlusPlus"] = config[t]["ZeoPlusPlus"]

C4_Witness ==
  \E t \in Threads :
    /\ entry[t] = "MofGenEntry" /\ Done(t) /\ Returned(t)
    /\ events[t].zeo = "raise"
    /\ result[t].value.fields["ZeoPlusPlus"] = None_

SorbateKeysOf(o) == SelectSeq(o.order, LAMBDA k : k # ReservedKey)

\* C5: when the pore-geometry tool returns a mapping whose sorbate entries are
\* complete, ZeoPPEntry.from_structure returns a list with one record per key
\* other than "is_mof", in the mapping's order, Sorbate being the key; whenever it
\* returns a list, no record's Sorbate is "is_mof" and no two records share one.
C5_OneRecordPerSorbateInOrder ==
  \A t \in Threads :
    entry[t] = "ZeoPPEntry" /\ Done(t) /\ output[t] # None_ =>
      /\ ZeoComplete(output[t]) => Returned(t)
      /\ Returned(t) =>
           LET items == result[t].value.items
               keys == SorbateKeysOf(output[t])
           IN /\ result[t].value.type = "list"
              /\ Len(items) = Len(keys)
              /\ \A i \in DOMAIN items :
                   /\ items[i].fields["Sorbate"] = Val("str", "key", keys[i])
                   /\ items[i].fields["Sorbate"].key # ReservedKey
              /\ \A i, j \in DOMAIN items :
                   items[i].fields["Sorbate"] = items[j].fields["Sorbate"] => i = j

C5_Witness ==
  \E t \in Threads :
    /\ entry[t] = "ZeoPPEntry" /\ Done(t) /\ Returned(t)
    /\ output[t] # None_
    /\ output[t].order = <<"N2", ReservedKey, "CO2">>
    /\ Len(result[t].value.items) = Cardinality(SorbateNames)
    /\ result[t].value.items[1].fields["Sorbate"].key = "N2"

\* C6: when the identifier tool returns a mapping (of values of the documented
\* types), MofIdEntry.from_structure returns a record whose fields carry the
\* values of the keys that are there and None for the keys that are missing.
C6_MissingKeysBecomeNull ==
  \A t \in Threads :
    entry[t] = "MofIdEntry" /\ Done(t) /\ output[t] # None_
      /\ (\A k \in DOMAIN output[t].map : output[t].map[k].type = IdKeyType(k)) =>
      /\ Returned(t)
      /\ \A f \in IdFields :
           result[t].value.fields[f] =
             IF remap[f] \in DOMAIN output[t].map THEN output[t].map[remap[f]] ELSE None_

AllDone == \A t \in Threads : Done(t)

RanOutside(t) == toolCwd[t] \notin {NoDir, tmp_dir[t]}

\* C7: with two threads the restoration is not guaranteed, and what can go wrong
\* is this: a tool runs outside its call's temporary directory only when the other
\* call has created its own, and then in that directory or in the starting one;
\* once both calls have ended every temporary directory is removed, and the
\* working directory is the starting one or a removed temporary directory, the
\* latter only when some call did not save the starting directory as old_cwd.
C7_RaceShape ==
  /\ \A t \in Threads :
       RanOutside(t) =>
         /\ \E u \in Threads \ {t} : tmp_dir[u] # NoDir
         /\ toolCwd[t] \in {startCwd[t]} \cup {tmp_dir[u] : u \in Threads \ {t}}
  /\ AllDone =>
       /\ dirs = HomeDirs
       /\ cwd \in {startCwd[t] : t \in Threads} \cup {tmp_dir[t] : t \in Threads}
       /\ (\E t \in Threads : cwd # startCwd[t]) =>
            \E t \in Threads : old_cwd[t] # startCwd[t]

C7_Witness ==
  /\ AllDone
  /\ \A t \in Threads : Returned(t) /\ cwd # startCwd[t]
  /\ \E t \in Threads : RanOutside(t)
  /\ cwd \notin dirs

\* C8: when the symmetry analyzer raises, at whichever step, sg stays empty; the
\* call then still builds its record from every other computed value, returns it
\* unless a keyword argument stops it, and without space-group keywords the record
\* has SpaceGroupNumber and SpaceGroupSymbol both None.  In every returned record
\* built without space-group keywords the two are None together or not at all.
C8_SymmetryFailureLeavesBothNull ==
  \A t \in Threads :
    /\ entry[t] = "MofGenEntry" /\ SymRaised(t) => sg[t] = EmptyDict
    /\ Constructed(t) /\ SymRaised(t) /\ KwGood(t)
         /\ DOMAIN kwargs[t] \cap ComputedNames(t) = {} => Returned(t)
    /\ Constructed(t) /\ Returned(t) /\ DOMAIN kwargs[t] \cap SgNames = {} =>
         LET fields == result[t].value.fields IN
         /\ fields["SpaceGroupNumber"] = None_ <=> fields["SpaceGroupSymbol"] = None_
         /\ SymRaised(t) =>
              /\ fields["SpaceGroupNumber"] = None_
              /\ \A n \in DOMAIN BaseConfig(structure[t]) :
                   fields[n] = BaseConfig(structure[t])[n]
              /\ fields["MofId"].type = "MofIdEntry"
              /\ "ZeoPlusPlus" \notin DOMAIN kwargs[t] =>
                   fields["ZeoPlusPlus"] = config[t]["ZeoPlusPlus"]

C8_Witness ==
  \E t \in Threads :
    /\ Constructed(t) /\ Returned(t)
    /\ events[t].sym = "raise_symbol"
    /\ events[t].id = "complete" /\ events[t].zeo = "complete"
    /\ kwargs[t] = EmptyDict
    /\ result[t].value.fields["SpaceGroupNumber"] = None_
    /\ result[t].value.fields["SpaceGroupSymbol"] = None_
    /\ result[t].value.fields["ZeoPlusPlus"].type = "list"
    /\ result[t].value.fields["ZeoPlusPlus"].items # <<>>

\* C9: in every record ZeoPPEntry.from_structure returns, each of Poav,
\* PoavVolumetric, Ponav and PonavVolumetric is the tool's value for the quantity
\* and unit the field is documented with.
C9_VolumeFieldsCarryDocumentedUnit ==
  \A t \in Threads :
    entry[t] = "ZeoPPEntry" /\ Done(t) /\ Returned(t) /\ output[t] # None_ =>
      \A i \in DOMAIN result[t].value.items :
        \A f \in DOMAIN DocumentedKey :
          result[t].value.items[i].fields[f] =
            output[t].map[SorbateKeysOf(output[t])[i]].map[DocumentedKey[f]]

\* C10: in neither sub-call is the working directory ever a directory that has
\* been removed: both restore the saved directory before their temporary
\* directory is deleted.
C10_CwdNeverARemovedDirectory ==
  /\ cwd \in dirs
  /\ \A t \in Threads :
       pc[t] \in {"id_restore", "zeo_cleanup"} => cwd # tmp_dir[t]

====
